---- MODULE Spec2Model ----
(***************************************************************************)
(* Model of src/server.js: the in-memory job registry, the two HTTP        *)
(* handlers and the background pipeline processVideoBackground with the    *)
(* concatenation fallback chain of concatenateVideosSimple.                *)
(*                                                                         *)
(* One action is one run-to-completion turn of the Node event loop: a      *)
(* handler or the continuation after an await, together with everything    *)
(* it executes synchronously (including microtask continuations of         *)
(* promises that are settled synchronously).  The outcome of an external   *)
(* call (fetch, ffmpeg, file copy, R2) is chosen nondeterministically.     *)
(***************************************************************************)
EXTENDS Integers, Sequences, FiniteSets, TLC

\* ------------------------------------------------------------- bounds
\* number of ids uuidv4 hands out (requests the server receives)
MaxJobs == 2
\* number of distinct values Date.now() takes
MaxClock == 2
\* number of distinct file contents ffmpeg can produce
MaxBlob == 3
\* number of distinct clip bodies the remote servers serve
MaxServed == 1

JobIds == 1..MaxJobs
Blob == 1..MaxBlob

\* byte size of a content: distinct contents may have the same size
Size(b) == (b + 1) \div 2

VARIABLES
    jobs,            \* the Map `jobs`: job id -> job record
    clock,           \* the value Date.now() returns
    disk,            \* files of TEMP_DIR: path -> content
    listFiles,       \* the concat list files (outputPath + '.list') on disk
    r2,              \* the bucket: key -> content
    env,             \* process.env.CLOUDFLARE_BUCKET_NAME is set
    nextId,          \* ids uuidv4 has handed out so far, plus one
    pc,              \* position of each job's background run
    timestamp,       \* `timestamp` of the run (line 423)
    catchTimestamp,  \* `timestamp` of the catch block (line 505)
    ugcStats,        \* ugcStats.size (line 188) while concatenateVideosSimple runs
    error,           \* the error caught at line 501
    fileBuffer,      \* fileBuffer of uploadToR2 (line 341)
    log,             \* the stages the run has started, in order
    signal,          \* what the concat handler run in the job's last step saw: the ffmpeg
                     \* event and outputStats.size (0 when not read)
    response,        \* what POST /process-video answered for each id uuidv4 handed out
    written,         \* the progress values written to each job's record, in order
    text,            \* the `text` argument of addTextOverlay
    alignment,       \* the `alignment` argument of addTextOverlay
    videoFilters     \* the filters addTextOverlay hands to ffmpeg

vars == <<jobs, clock, disk, listFiles, r2, env, nextId, pc, timestamp,
          catchTimestamp, ugcStats, error, fileBuffer, log, signal, response,
          written, text, alignment, videoFilters>>

\* the arguments of one addTextOverlay call and the filters it builds
overlayVars == <<text, alignment, videoFilters>>

\* ------------------------------------------------------------- paths
ugcTempPath(t) == <<"ugc", t>>
ugcWithTextPath(t) == <<"ugc-text", t>>
demoTempPath(t) == <<"demo", t>>
finalVideoPath(t) == <<"final", t>>

TempPaths(t) == {ugcTempPath(t), ugcWithTextPath(t), demoTempPath(t), finalVideoPath(t)}

\* Key and public URL of uploadToR2 for fileName generated-video-<t>.mp4
Key(t) == <<"generated-videos", t>>
PublicUrl(t) == <<"PUBLIC_DOMAIN", "generated-videos", t>>

\* ------------------------------------------------------------- files
Exists(d, p) == p \in DOMAIN d

WriteFile(d, p, c) == [q \in DOMAIN d \cup {p} |-> IF q = p THEN c ELSE d[q]]

RemoveAll(d, ps) == [q \in DOMAIN d \ ps |-> d[q]]

\* ------------------------------------------------------------- errors
DownloadMsg == "HTTP 404: Not Found"
FfmpegMsg == "ffmpeg exited with code 1"
CopyMsg == "ENOENT: copyfile"
ConfigMsg == "CLOUDFLARE_BUCKET_NAME environment variable is not set"
ReadMsg == "ENOENT: open"
UploadMsg == "AccessDenied"
NoError == "none"

\* ------------------------------------------------------------- registry
NewJob == [status |-> "processing", progress |-> 0]

SetJob(js, j, rec) == [k \in DOMAIN js \cup {j} |-> IF k = j THEN rec ELSE js[k]]

\* faulty variant of UpdateProgress: the progress is written to every registered job
UpdateProgressEveryJob(js, j, p) ==
    IF j \in DOMAIN js THEN [k \in DOMAIN js |-> [js[k] EXCEPT !.progress = p]] ELSE js

\* faulty variant of UpdateProgress: the updated record is never written back
UpdateProgressNoWriteBack(js, j, p) == js

UpdateProgress(js, j, p) ==
    IF j \in DOMAIN js THEN [js EXCEPT ![j] = [@ EXCEPT !.progress = p]] ELSE js

\* faulty variant of CompletedJob: the terminal record is written without the URL
CompletedJobNoUrl(url) == [status |-> "completed", progress |-> 100]

CompletedJob(url) == [status |-> "completed", progress |-> 100, videoUrl |-> url]

\* faulty variant of FailedJob: a fixed message is recorded, not the caught error's
FailedJobGenericMessage(msg) ==
    [status |-> "failed", progress |-> 0, error |-> "Failed to start video processing"]

FailedJob(msg) == [status |-> "failed", progress |-> 0, error |-> msg]

\* ------------------------------------------------------------- requests
Fields == {"missing", "ok"}
UrlFields == {"missing", "malformed", "ok"}
Requests == [ugcVideoUrl : UrlFields, productDemoUrl : UrlFields,
             hook : Fields, textAlignment : Fields]

MissingParams(req) ==
    \/ req.ugcVideoUrl = "missing"
    \/ req.productDemoUrl = "missing"
    \/ req.hook = "missing"
    \/ req.textAlignment = "missing"

InvalidUrls(req) == req.ugcVideoUrl = "malformed" \/ req.productDemoUrl = "malformed"

NoSignal == [event |-> "none", size |-> 0]

\* the responses of POST /process-video
NoResponse == [code |-> 0, body |-> <<>>]
BadRequest(msg) == [code |-> 400, body |-> [error |-> msg]]
Accepted(jobId) == [code |-> 200, body |-> [jobId |-> jobId]]

\* the server has started and no request has arrived
Idle ==
    /\ jobs = <<>>
    /\ clock = 1
    /\ disk = <<>>
    /\ listFiles = {}
    /\ r2 = <<>>
    /\ env \in BOOLEAN
    /\ nextId = 1
    /\ pc = [j \in JobIds |-> "idle"]
    /\ timestamp = [j \in JobIds |-> 0]
    /\ catchTimestamp = [j \in JobIds |-> 0]
    /\ ugcStats = [j \in JobIds |-> 0]
    /\ error = [j \in JobIds |-> NoError]
    /\ fileBuffer = [j \in JobIds |-> 0]
    /\ log = [j \in JobIds |-> <<>>]
    /\ signal = [j \in JobIds |-> NoSignal]
    /\ response = [j \in JobIds |-> NoResponse]
    /\ written = [j \in JobIds |-> <<>>]

Init ==
    /\ Idle
    /\ text = <<>>
    /\ alignment = "middle"
    /\ videoFilters = <<>>

\* ------------------------------------------------------------- run steps
\* What one turn of job j's run leaves behind: the shared state it may write
\* and the run's own position and locals.
St(j) == [jobs |-> jobs, disk |-> disk, listFiles |-> listFiles, pc |-> pc[j],
          log |-> log[j], error |-> error[j], ugcStats |-> ugcStats[j],
          signal |-> NoSignal, written |-> written[j]]

Apply(j, st) ==
    /\ jobs' = st.jobs
    /\ disk' = st.disk
    /\ listFiles' = st.listFiles
    /\ pc' = [pc EXCEPT ![j] = st.pc]
    /\ log' = [log EXCEPT ![j] = st.log]
    /\ error' = [error EXCEPT ![j] = st.error]
    /\ ugcStats' = [ugcStats EXCEPT ![j] = st.ugcStats]
    /\ signal' = [signal EXCEPT ![j] = st.signal]
    /\ written' = [written EXCEPT ![j] = st.written]
    /\ catchTimestamp' = [catchTimestamp EXCEPT ![j] =
                             IF st.pc = "catch" THEN clock ELSE IF st.pc = "done" THEN 0 ELSE @]

\* an awaited call rejects: control enters the catch block, which reads
\* Date.now() and issues the four removals
Throw(st, msg) == [st EXCEPT !.pc = "catch", !.error = msg, !.ugcStats = 0]

\* The outcome of one ffmpeg run: it emits 'end' or 'error', and it has or has
\* not written its output file (out = 0: nothing written).
Outcomes == [end : BOOLEAN, out : 0..MaxBlob]

EngineWrite(d, p, o) == IF o.out = 0 THEN d ELSE WriteFile(d, p, o.out)

\* the event a concat handler receives and the output size it reads on 'end'
Signal(d, p, o) ==
    [event |-> IF o.end THEN "end" ELSE "error",
     size |-> IF o.end /\ Exists(d, p) THEN Size(d[p]) ELSE 0]

\* faulty variant of ValidOutput: an output of the same size as clip A is accepted
ValidOutputSameSize(d, p, ugcSize) == Exists(d, p) /\ Size(d[p]) >= ugcSize

\* faulty variant of ValidOutput: the comparison is written the wrong way round
ValidOutputInverted(d, p, ugcSize) == Exists(d, p) /\ Size(d[p]) < ugcSize

\* the validity check of the 'end' handlers
ValidOutput(d, p, ugcSize) == Exists(d, p) /\ Size(d[p]) > ugcSize

\* faulty variant of StartUpload: the checkpoint after concatenation is written as 58
StartUploadProgress58(st, j) ==
    LET s1 == [st EXCEPT !.jobs = UpdateProgress(st.jobs, j, 58),
                         !.written = Append(@, 58),
                         !.log = Append(@, "upload"),
                         !.ugcStats = 0]
    IN IF ~env THEN Throw(s1, ConfigMsg) ELSE [s1 EXCEPT !.pc = "readFile"]

\* updateProgress(85), then uploadToR2 up to its first await
StartUpload(st, j) ==
    LET s1 == [st EXCEPT !.jobs = UpdateProgress(st.jobs, j, 85),
                         !.written = Append(@, 85),
                         !.log = Append(@, "upload"),
                         !.ugcStats = 0]
    IN IF ~env THEN Throw(s1, ConfigMsg) ELSE [s1 EXCEPT !.pc = "readFile"]

\* faulty variant of CatchConcat: the rejection of concatenateVideosSimple is not
\* caught and reaches the catch block of the run
CatchConcatRethrows(st, j, t, ioOk) == Throw(st, FfmpegMsg)

\* concatenateVideosSimple rejected: copy the captioned clip as the final video
CatchConcat(st, j, t, ioOk) ==
    LET s1 == [st EXCEPT !.log = Append(@, "copyA")]
    IN IF Exists(st.disk, ugcWithTextPath(t)) /\ ioOk
       THEN StartUpload([s1 EXCEPT !.disk = WriteFile(@, finalVideoPath(t),
                                                      st.disk[ugcWithTextPath(t)])], j)
       ELSE Throw(s1, CopyMsg)

\* faulty variant of TryUgcOnlyFallback: a failed copy is logged and the promise is
\* neither resolved nor rejected
TryUgcOnlyFallbackNeverSettles(st, j, t, ioOk1, ioOk2) ==
    LET s1 == [st EXCEPT !.log = Append(@, "ugcOnly")]
    IN IF Exists(st.disk, ugcWithTextPath(t)) /\ ioOk1
       THEN StartUpload([s1 EXCEPT !.disk = WriteFile(@, finalVideoPath(t),
                                                      st.disk[ugcWithTextPath(t)])], j)
       ELSE [s1 EXCEPT !.pc = "pending"]

\* faulty variant of TryUgcOnlyFallback: the raw clip is copied, not the captioned one
TryUgcOnlyFallbackCopiesRaw(st, j, t, ioOk1, ioOk2) ==
    LET s1 == [st EXCEPT !.log = Append(@, "ugcOnly")]
    IN IF Exists(st.disk, ugcTempPath(t)) /\ ioOk1
       THEN StartUpload([s1 EXCEPT !.disk = WriteFile(@, finalVideoPath(t),
                                                      st.disk[ugcTempPath(t)])], j)
       ELSE CatchConcat(s1, j, t, ioOk2)

TryUgcOnlyFallback(st, j, t, ioOk1, ioOk2) ==
    LET s1 == [st EXCEPT !.log = Append(@, "ugcOnly")]
    IN IF Exists(st.disk, ugcWithTextPath(t)) /\ ioOk1
       THEN StartUpload([s1 EXCEPT !.disk = WriteFile(@, finalVideoPath(t),
                                                      st.disk[ugcWithTextPath(t)])], j)
       ELSE CatchConcat(s1, j, t, ioOk2)

TryListConcat(st, t) ==
    [st EXCEPT !.listFiles = @ \cup {t}, !.log = Append(@, "list"), !.pc = "list"]

TryFilterComplexConcat(st) ==
    [st EXCEPT !.log = Append(@, "filter"), !.pc = "filter"]

ConcatenateVideosSimple(st, j, t, ioOk) ==
    LET s1 == [st EXCEPT !.log = Append(@, "concat")]
    IN IF ~Exists(st.disk, ugcWithTextPath(t)) THEN CatchConcat(s1, j, t, ioOk)
       ELSE IF ~Exists(st.disk, demoTempPath(t)) THEN CatchConcat(s1, j, t, ioOk)
       ELSE TryFilterComplexConcat(
                [s1 EXCEPT !.ugcStats = Size(st.disk[ugcWithTextPath(t)])])

\* ------------------------------------------------------------- actions
\* faulty variant of Submit: the handler awaits the background run, so no response
\* is sent while the run is in progress
SubmitAwaitsRun(req) ==
    /\ nextId <= MaxJobs
    /\ nextId' = nextId + 1
    /\ IF MissingParams(req) \/ InvalidUrls(req)
       THEN /\ pc' = [pc EXCEPT ![nextId] = "rejected"]
            /\ response' = [response EXCEPT ![nextId] =
                                IF MissingParams(req)
                                THEN BadRequest("Missing required parameters")
                                ELSE BadRequest("Invalid video URLs provided")]
            /\ UNCHANGED <<jobs, timestamp, log, written>>
       ELSE /\ jobs' = UpdateProgress(SetJob(jobs, nextId, NewJob), nextId, 10)
            /\ written' = [written EXCEPT ![nextId] = <<NewJob.progress, 10>>]
            /\ timestamp' = [timestamp EXCEPT ![nextId] = clock]
            /\ pc' = [pc EXCEPT ![nextId] = "dl_ugc"]
            /\ log' = [log EXCEPT ![nextId] = <<"dl_ugc">>]
            /\ UNCHANGED response
    /\ UNCHANGED <<clock, disk, listFiles, r2, env, catchTimestamp, ugcStats,
                   error, fileBuffer, signal, overlayVars>>

\* faulty variant of Submit: the job is registered before the request is validated
SubmitRegistersFirst(req) ==
    /\ nextId <= MaxJobs
    /\ nextId' = nextId + 1
    /\ IF MissingParams(req) \/ InvalidUrls(req)
       THEN /\ pc' = [pc EXCEPT ![nextId] = "rejected"]
            /\ response' = [response EXCEPT ![nextId] =
                                IF MissingParams(req)
                                THEN BadRequest("Missing required parameters")
                                ELSE BadRequest("Invalid video URLs provided")]
            /\ jobs' = SetJob(jobs, nextId, NewJob)
            /\ UNCHANGED <<timestamp, log, written>>
       ELSE /\ jobs' = UpdateProgress(SetJob(jobs, nextId, NewJob), nextId, 10)
            /\ written' = [written EXCEPT ![nextId] = <<NewJob.progress, 10>>]
            /\ timestamp' = [timestamp EXCEPT ![nextId] = clock]
            /\ pc' = [pc EXCEPT ![nextId] = "dl_ugc"]
            /\ log' = [log EXCEPT ![nextId] = <<"dl_ugc">>]
            /\ response' = [response EXCEPT ![nextId] = Accepted(nextId)]
    /\ UNCHANGED <<clock, disk, listFiles, r2, env, catchTimestamp, ugcStats,
                   error, fileBuffer, signal, overlayVars>>

\* POST /process-video, with the part of processVideoBackground that runs
\* before its first await
Submit(req) ==
    /\ nextId <= MaxJobs
    /\ nextId' = nextId + 1
    /\ IF MissingParams(req) \/ InvalidUrls(req)
       THEN /\ pc' = [pc EXCEPT ![nextId] = "rejected"]
            /\ response' = [response EXCEPT ![nextId] =
                                IF MissingParams(req)
                                THEN BadRequest("Missing required parameters")
                                ELSE BadRequest("Invalid video URLs provided")]
            /\ UNCHANGED <<jobs, timestamp, log, written>>
       ELSE /\ jobs' = UpdateProgress(SetJob(jobs, nextId, NewJob), nextId, 10)
            /\ written' = [written EXCEPT ![nextId] = <<NewJob.progress, 10>>]
            /\ timestamp' = [timestamp EXCEPT ![nextId] = clock]
            /\ pc' = [pc EXCEPT ![nextId] = "dl_ugc"]
            /\ log' = [log EXCEPT ![nextId] = <<"dl_ugc">>]
            /\ response' = [response EXCEPT ![nextId] = Accepted(nextId)]
    /\ UNCHANGED <<clock, disk, listFiles, r2, env, catchTimestamp, ugcStats,
                   error, fileBuffer, signal, overlayVars>>

\* GET /job-status/:jobId: the response the handler writes
JobStatus(id) ==
    IF id \in DOMAIN jobs THEN [code |-> 200, body |-> jobs[id]]
    ELSE [code |-> 404, body |-> [error |-> "Job not found"]]

\* GET /job-status/:jobId reads the registry and changes nothing
GetJobStatus(id) ==
    /\ id \in JobIds
    /\ UNCHANGED vars

\* downloadVideo(ugcVideoUrl, ugcTempPath) settles: the body is written to the
\* path (c > 0), or fetch rejects or answers a non-ok status and nothing is
\* written (c = 0)
DownloadUgc(j) ==
    /\ pc[j] = "dl_ugc"
    /\ \E c \in 0..MaxServed :
         Apply(j, IF c = 0 THEN Throw(St(j), DownloadMsg)
                  ELSE [St(j) EXCEPT
                          !.disk = WriteFile(@, ugcTempPath(timestamp[j]), c),
                          !.jobs = UpdateProgress(@, j, 30),
                          !.written = Append(@, 30),
                          !.log = Append(@, "dl_demo"),
                          !.pc = "dl_demo"])
    /\ UNCHANGED <<clock, r2, env, nextId, timestamp, fileBuffer, response, overlayVars>>

\* faulty variant of DownloadDemo: the checkpoint after clip B is not written
DownloadDemoSkipsCheckpoint(j) ==
    /\ pc[j] = "dl_demo"
    /\ \E c \in 0..MaxServed :
         Apply(j, IF c = 0 THEN Throw(St(j), DownloadMsg)
                  ELSE [St(j) EXCEPT
                          !.disk = WriteFile(@, demoTempPath(timestamp[j]), c),
                          !.log = Append(@, "overlay"),
                          !.pc = "overlay"])
    /\ UNCHANGED <<clock, r2, env, nextId, timestamp, fileBuffer, response, overlayVars>>

\* downloadVideo(productDemoUrl, demoTempPath) settles
DownloadDemo(j) ==
    /\ pc[j] = "dl_demo"
    /\ \E c \in 0..MaxServed :
         Apply(j, IF c = 0 THEN Throw(St(j), DownloadMsg)
                  ELSE [St(j) EXCEPT
                          !.disk = WriteFile(@, demoTempPath(timestamp[j]), c),
                          !.jobs = UpdateProgress(@, j, 50),
                          !.written = Append(@, 50),
                          !.log = Append(@, "overlay"),
                          !.pc = "overlay"])
    /\ UNCHANGED <<clock, r2, env, nextId, timestamp, fileBuffer, response, overlayVars>>

\* addTextOverlay settles; on success concatenateVideosSimple starts
Overlay(j) ==
    /\ pc[j] = "overlay"
    /\ \E o \in Outcomes, ioOk \in BOOLEAN :
         /\ o.end => Exists(disk, ugcTempPath(timestamp[j]))
         /\ LET st == [St(j) EXCEPT
                         !.disk = EngineWrite(@, ugcWithTextPath(timestamp[j]), o)]
            IN Apply(j, IF o.end
                        THEN ConcatenateVideosSimple(
                                 [st EXCEPT !.jobs = UpdateProgress(@, j, 70),
                          !.written = Append(@, 70)],
                                 j, timestamp[j], ioOk)
                        ELSE Throw(st, FfmpegMsg))
    /\ UNCHANGED <<clock, r2, env, nextId, timestamp, fileBuffer, response, overlayVars>>

\* the 'end' or 'error' handler of tryFilterComplexConcat
FilterComplexEnd(j) ==
    /\ pc[j] = "filter"
    /\ \E o \in Outcomes :
         /\ o.end => /\ Exists(disk, ugcWithTextPath(timestamp[j]))
                     /\ Exists(disk, demoTempPath(timestamp[j]))
         /\ LET d1 == EngineWrite(disk, finalVideoPath(timestamp[j]), o)
                st == [St(j) EXCEPT
                         !.disk = d1,
                         !.signal = Signal(d1, finalVideoPath(timestamp[j]), o)]
            IN Apply(j, IF o.end /\ ValidOutput(st.disk, finalVideoPath(timestamp[j]),
                                                ugcStats[j])
                        THEN StartUpload(st, j)
                        ELSE TryListConcat(st, timestamp[j]))
    /\ UNCHANGED <<clock, r2, env, nextId, timestamp, fileBuffer, response, overlayVars>>

\* the 'end' or 'error' handler of tryListConcat
ListConcatEnd(j) ==
    /\ pc[j] = "list"
    /\ \E o \in Outcomes, ioOk1 \in BOOLEAN, ioOk2 \in BOOLEAN :
         /\ ioOk1 => ioOk2    \* the second copy is attempted only after the first failed
         /\ o.end => /\ timestamp[j] \in listFiles
                     /\ Exists(disk, ugcWithTextPath(timestamp[j]))
                     /\ Exists(disk, demoTempPath(timestamp[j]))
         /\ LET d1 == EngineWrite(disk, finalVideoPath(timestamp[j]), o)
                st == [St(j) EXCEPT
                         !.disk = d1,
                         !.listFiles = @ \ {timestamp[j]},
                         !.signal = Signal(d1, finalVideoPath(timestamp[j]), o)]
            IN Apply(j, IF o.end /\ ValidOutput(st.disk, finalVideoPath(timestamp[j]),
                                                ugcStats[j])
                        THEN StartUpload(st, j)
                        ELSE TryUgcOnlyFallback(st, j, timestamp[j], ioOk1, ioOk2))
    /\ UNCHANGED <<clock, r2, env, nextId, timestamp, fileBuffer, response, overlayVars>>

\* fs.readFile(filePath) of uploadToR2 settles; on success r2.upload starts
ReadFile(j) ==
    /\ pc[j] = "readFile"
    /\ IF Exists(disk, finalVideoPath(timestamp[j]))
       THEN /\ fileBuffer' = [fileBuffer EXCEPT ![j] = disk[finalVideoPath(timestamp[j])]]
            /\ Apply(j, [St(j) EXCEPT !.pc = "upload"])
       ELSE /\ Apply(j, Throw(St(j), ReadMsg))
            /\ UNCHANGED fileBuffer
    /\ UNCHANGED <<clock, r2, env, nextId, timestamp, response, overlayVars>>

\* faulty variant of UploadEnd: a rejected upload is swallowed and the run goes on
UploadEndSwallowsFailure(j) ==
    /\ pc[j] = "upload"
    /\ \E ok \in BOOLEAN :
         /\ r2' = IF ok THEN WriteFile(r2, Key(timestamp[j]), fileBuffer[j]) ELSE r2
         /\ Apply(j, [St(j) EXCEPT !.jobs = UpdateProgress(@, j, 95),
                                   !.written = Append(@, 95),
                                   !.pc = "cleanup"])
    /\ fileBuffer' = [fileBuffer EXCEPT ![j] = 0]
    /\ UNCHANGED <<clock, env, nextId, timestamp, response, overlayVars>>

\* r2.upload(...).promise() settles; on success the four removals are issued
UploadEnd(j) ==
    /\ pc[j] = "upload"
    /\ \E ok \in BOOLEAN :
         IF ok
         THEN /\ r2' = WriteFile(r2, Key(timestamp[j]), fileBuffer[j])
              /\ Apply(j, [St(j) EXCEPT !.jobs = UpdateProgress(@, j, 95),
                          !.written = Append(@, 95),
                                        !.pc = "cleanup"])
         ELSE /\ Apply(j, Throw(St(j), UploadMsg))
              /\ UNCHANGED r2
    /\ fileBuffer' = [fileBuffer EXCEPT ![j] = 0]
    /\ UNCHANGED <<clock, env, nextId, timestamp, response, overlayVars>>

\* faulty variant of RemoveTemp: the final merged clip is not among the removals
RemoveTempKeepsFinal(j) ==
    /\ pc[j] = "cleanup"
    /\ Apply(j, [St(j) EXCEPT
                   !.disk = RemoveAll(@, TempPaths(timestamp[j]) \ {finalVideoPath(timestamp[j])}),
                   !.pc = "cleaned"])
    /\ UNCHANGED <<clock, r2, env, nextId, timestamp, fileBuffer, response, overlayVars>>

\* the removals of lines 482-487 take effect
RemoveTemp(j) ==
    /\ pc[j] = "cleanup"
    /\ Apply(j, [St(j) EXCEPT !.disk = RemoveAll(@, TempPaths(timestamp[j])),
                              !.pc = "cleaned"])
    /\ UNCHANGED <<clock, r2, env, nextId, timestamp, fileBuffer, response, overlayVars>>

\* faulty variant of Complete: a statement after the terminal write throws, so the
\* catch block runs after the job was marked completed
CompleteThenThrows(j) ==
    /\ pc[j] = "cleaned"
    /\ Apply(j, Throw([St(j) EXCEPT
                         !.jobs = SetJob(UpdateProgress(@, j, 100), j,
                                         CompletedJob(PublicUrl(timestamp[j]))),
                         !.written = Append(@, 100)],
                      "write EPIPE"))
    /\ UNCHANGED <<clock, r2, env, nextId, timestamp, fileBuffer, response, overlayVars>>

\* lines 489-496: the run ends successfully
Complete(j) ==
    /\ pc[j] = "cleaned"
    /\ Apply(j, [St(j) EXCEPT
                   !.jobs = SetJob(UpdateProgress(@, j, 100), j,
                                   CompletedJob(PublicUrl(timestamp[j]))),
                   !.written = Append(@, 100),
                   !.pc = "done"])
    /\ UNCHANGED <<clock, r2, env, nextId, timestamp, fileBuffer, response, overlayVars>>

\* the removals of lines 506-511 take effect
CatchRemove(j) ==
    /\ pc[j] = "catch"
    /\ Apply(j, [St(j) EXCEPT !.disk = RemoveAll(@, TempPaths(catchTimestamp[j])),
                              !.pc = "caught"])
    /\ UNCHANGED <<clock, r2, env, nextId, timestamp, fileBuffer, response, overlayVars>>

\* lines 513-517: the run ends in failure
Fail(j) ==
    /\ pc[j] = "caught"
    /\ Apply(j, [St(j) EXCEPT !.jobs = SetJob(@, j, FailedJob(error[j])),
                              !.pc = "done"])
    /\ UNCHANGED <<clock, r2, env, nextId, timestamp, fileBuffer, response, overlayVars>>

\* Date.now() advances
Tick ==
    /\ clock < MaxClock
    /\ clock' = clock + 1
    /\ UNCHANGED <<jobs, disk, listFiles, r2, env, nextId, pc, timestamp,
                   catchTimestamp, ugcStats, error, fileBuffer, log, signal, response,
                   written, overlayVars>>

Next ==
    \/ Tick
    \/ \E req \in Requests : Submit(req)
    \/ \E id \in JobIds : GetJobStatus(id)
    \/ \E j \in JobIds : DownloadUgc(j)
    \/ \E j \in JobIds : DownloadDemo(j)
    \/ \E j \in JobIds : Overlay(j)
    \/ \E j \in JobIds : FilterComplexEnd(j)
    \/ \E j \in JobIds : ListConcatEnd(j)
    \/ \E j \in JobIds : ReadFile(j)
    \/ \E j \in JobIds : UploadEnd(j)
    \/ \E j \in JobIds : RemoveTemp(j)
    \/ \E j \in JobIds : Complete(j)
    \/ \E j \in JobIds : CatchRemove(j)
    \/ \E j \in JobIds : Fail(j)

Spec == Init /\ [][Next]_vars

\* one turn of job j's run: the continuation after whichever call it awaits
RunStep(j) ==
    \/ DownloadUgc(j)
    \/ DownloadDemo(j)
    \/ Overlay(j)
    \/ FilterComplexEnd(j)
    \/ ListConcatEnd(j)
    \/ ReadFile(j)
    \/ UploadEnd(j)
    \/ RemoveTemp(j)
    \/ Complete(j)
    \/ CatchRemove(j)
    \/ Fail(j)

\* every external call a run awaits eventually returns, with success or failure,
\* and the event loop then runs its continuation: while some run has a
\* continuation pending, one is eventually run
FairSpec == Spec /\ WF_vars(\E j \in JobIds : RunStep(j))

\* ------------------------------------------------------------- text overlay
\* A text is the sequence of its characters.

\* \w of the regular expression of line 89
WordChars ==
    {"a", "b", "c", "d", "e", "f", "g", "h", "i", "j", "k", "l", "m", "n", "o",
     "p", "q", "r", "s", "t", "u", "v", "w", "x", "y", "z", "A", "B", "C", "D",
     "E", "F", "G", "H", "I", "J", "K", "L", "M", "N", "O", "P", "Q", "R", "S",
     "T", "U", "V", "W", "X", "Y", "Z", "0", "1", "2", "3", "4", "5", "6", "7",
     "8", "9", "_"}

\* \s of the regular expression of line 89
Whitespace == {" ", "\t", "\n", "\r"}

\* a character the first replace leaves in place
Kept(c) == c \in WordChars \cup Whitespace \cup {"-", ".", ",", "!", "?"}

\* text.replace(/[^\w\s\-.,!?]/g, '')
RemoveSpecial(s) == SelectSeq(s, Kept)

\* s.replace(/<ch>/g, '\<ch>'): a backslash is put before every occurrence of
\* ch, so the character at index i moves to index i plus the number of
\* occurrences of ch up to i
Escape(s, ch) ==
    LET Occ(i) == Cardinality({k \in 1..i : s[k] = ch})
        At(i) == i + Occ(i)
        Src(q) == CHOOSE i \in 1..Len(s) : At(i) = q \/ (s[i] = ch /\ At(i) - 1 = q)
    IN [q \in 1..(Len(s) + Occ(Len(s))) |->
           IF At(Src(q)) = q THEN s[Src(q)] ELSE "\\"]

\* s.slice(from, to)
Slice(s, from, to) == SubSeq(s, from + 1, IF to < Len(s) THEN to ELSE Len(s))

\* cleanText of addTextOverlay
CleanText(s) == Slice(Escape(Escape(RemoveSpecial(s), "'"), ":"), 0, 100)

\* textPosition of addTextOverlay, split at the colon
TextPosition(a) ==
    CASE a = "top" -> [x |-> "(w-text_w)/2", y |-> "h*0.1"]
      [] a = "bottom" -> [x |-> "(w-text_w)/2", y |-> "h*0.85"]
      [] OTHER -> [x |-> "(w-text_w)/2", y |-> "(h-text_h)/2"]

\* the drawtext filter addTextOverlay hands to ffmpeg
DrawText(s, a) ==
    [filter |-> "drawtext",
     options |-> [text |-> CleanText(s), fontsize |-> 32, fontcolor |-> "white",
                  x |-> TextPosition(a).x, y |-> TextPosition(a).y,
                  borderw |-> 2, bordercolor |-> "black"]]

\* number of phrases a caption is made of
MaxPhrases == 3

Phrases ==
    {<<"t", "h", "e", " ", "q", "u", "i", "c", "k", " ", "b", "r", "o", "w", "n">>,
     <<"f", "o", "x", " ", "j", "u", "m", "p", "s", " ", "o", "v", "e", "r">>,
     <<"i", "t", "'", "s", " ", "9", ":", "0", "0", " ", "@", "h", "o", "m", "e",
       "!">>,
     <<"w", "o", "w">>,
     <<"p", "n", "e", "u", "m", "o", "n", "o", "u", "l", "t", "r", "a", "m", "i",
       "c", "r", "o", "s", "c", "o", "p", "i", "c", "s", "i", "l", "i", "c",
       "o", "v", "o", "l", "c", "a", "n", "o", "c", "o", "n", "i", "o", "s",
       "i", "s">>}

RECURSIVE JoinPhrases(_)
JoinPhrases(q) ==
    IF Len(q) = 1 THEN q[1] ELSE q[1] \o <<" ">> \o JoinPhrases(Tail(q))

\* the hook texts a request carries: one to MaxPhrases phrases, separated by blanks
Captions == {JoinPhrases(q) : q \in UNION {[1..n -> Phrases] : n \in 1..MaxPhrases}}

\* the textAlignment values a request carries
Alignments == {"top", "middle", "bottom", "center"}

\* addTextOverlay is about to be called with a caption and an alignment
OverlayInit ==
    /\ Idle
    /\ text \in Captions
    /\ alignment \in Alignments
    /\ videoFilters = <<>>

\* addTextOverlay builds the filter list and starts ffmpeg
AddTextOverlay ==
    /\ videoFilters = <<>>
    /\ videoFilters' = <<DrawText(text, alignment)>>
    /\ UNCHANGED <<jobs, clock, disk, listFiles, r2, env, nextId, pc, timestamp,
                   catchTimestamp, ugcStats, error, fileBuffer, log, signal, response,
                   written, text, alignment>>

OverlaySpec == OverlayInit /\ [][AddTextOverlay]_vars

\* ------------------------------------------------------------- claims
Running(j) == pc[j] \notin {"idle", "rejected", "done"}

\* the stage whose failure put the run into the catch block is the last one started
Last(sq) == sq[Len(sq)]

\* C1: once a job's status has left 'processing' (it is 'completed' or
\* 'failed'), no step of any handler or run changes its record again.
TerminalRecordFrozen ==
    [][\A j \in DOMAIN jobs :
         jobs[j].status # "processing" => (j \in DOMAIN jobs' /\ jobs'[j] = jobs[j])]_vars

\* C1 witness: one job has ended 'completed' and another 'failed'
TerminalRecordFrozenWitness ==
    \E j \in DOMAIN jobs, k \in DOMAIN jobs :
        jobs[j].status = "completed" /\ jobs[k].status = "failed"

\* C2 as stated: the progress of a job never decreases over its whole life,
\* the terminal record included, and stays in 0..100.
ProgressNeverDecreases ==
    [][\A j \in DOMAIN jobs :
         /\ jobs'[j].progress >= jobs[j].progress
         /\ jobs'[j].progress \in 0..100]_vars

\* C2 amended: progress never decreases while the job is 'processing' and when
\* it becomes 'completed', and stays in 0..100; the record of a failed job
\* carries progress 0; once the status has left 'processing' the progress is
\* not updated again.
ProgressMonotoneUntilFailed ==
    [][\A j \in DOMAIN jobs :
         /\ jobs'[j].progress \in 0..100
         /\ jobs'[j].status # "failed" => jobs'[j].progress >= jobs[j].progress
         /\ jobs'[j].status = "failed" => jobs'[j].progress = 0
         /\ jobs[j].status # "processing" => jobs'[j].progress = jobs[j].progress]_vars

\* C2 witness: a job that had reached the overlay stage (progress 50) has
\* failed, and another job has completed
ProgressWitness ==
    \E j \in DOMAIN jobs, k \in DOMAIN jobs :
        /\ jobs[j].status = "failed" /\ Len(log[j]) >= 3
        /\ jobs[k].status = "completed"

\* C3 as stated: the ids returned so far are distinct from the id returned
\* next, and a query issued once the submission has returned, before the first
\* stage has finished, answers status 'processing' with progress 0.
QueryAfterSubmitProgress0 ==
    /\ \A j \in DOMAIN jobs : j < nextId
    /\ \A j \in JobIds :
         pc[j] = "dl_ugc" =>
           JobStatus(j) = [code |-> 200,
                           body |-> [status |-> "processing", progress |-> 0]]

\* C3 amended: as stated, but the query answers progress 10, the checkpoint the
\* run writes before the submission handler sends its response.
QueryAfterSubmitProgress10 ==
    /\ \A j \in DOMAIN jobs : j < nextId
    /\ \A j \in JobIds :
         pc[j] = "dl_ugc" =>
           JobStatus(j) = [code |-> 200,
                           body |-> [status |-> "processing", progress |-> 10]]

\* C3 witness: two submissions were accepted and the second one's first stage
\* has not finished
QueryAfterSubmitWitness ==
    /\ Cardinality(DOMAIN jobs) = 2
    /\ \E j \in DOMAIN jobs : pc[j] = "dl_ugc" /\ j + 1 = nextId

\* C4 as stated: a run that ended because a download failed, and that shares
\* its timestamp with no other run, has status 'failed' and none of its four
\* temp files is left on disk.
DownloadFailureLeavesNoTempFiles ==
    \A j \in JobIds :
        ( /\ pc[j] = "done"
          /\ error[j] = DownloadMsg
          /\ \A k \in JobIds \ {j} : timestamp[k] # timestamp[j] )
        => /\ jobs[j].status = "failed"
           /\ \A p \in TempPaths(timestamp[j]) : ~Exists(disk, p)

\* C5 as stated: two distinct runs in progress never use the same temp path.
TempPathsDisjoint ==
    \A j \in JobIds, k \in JobIds :
        (j # k /\ Running(j) /\ Running(k))
        => TempPaths(timestamp[j]) \cap TempPaths(timestamp[k]) = {}

\* the run started a fallback copy of the captioned clip and, the copy having
\* succeeded, went on to the upload
FallbackCopied(lg) ==
    \E i \in 1..(Len(lg) - 1) : lg[i] \in {"ugcOnly", "copyA"} /\ lg[i + 1] = "upload"

\* every concat tier was tried and failed: the A-only copy was reached
AllTiersFailed(lg) == \E i \in 1..Len(lg) : lg[i] = "ugcOnly"

UploadMsgs == {ConfigMsg, ReadMsg, UploadMsg}

\* C6, byte identity and publication: in the step in which both concat tiers
\* have failed and the copy of captioned clip A succeeds, the final output
\* file equals the captioned clip and the upload is started.
FallbackStep(j) ==
    (pc[j] = "list" /\ AllTiersFailed(log'[j]) /\ FallbackCopied(log'[j]))
    => /\ Exists(disk', finalVideoPath(timestamp[j]))
       /\ Exists(disk', ugcWithTextPath(timestamp[j]))
       /\ disk'[finalVideoPath(timestamp[j])] = disk'[ugcWithTextPath(timestamp[j])]
       /\ Last(log'[j]) = "upload"
       /\ pc'[j] = "readFile" \/ (pc'[j] = "catch" /\ error'[j] = ConfigMsg)

\* C6 as stated: when both concat tiers fail and the copy of captioned clip A
\* succeeds, the final output equals the captioned clip, the upload is started
\* and the finished job is 'completed'.
FallbackAlwaysCompletes ==
    /\ [][\A j \in JobIds : FallbackStep(j)]_vars
    /\ [](\A j \in JobIds :
            (pc[j] = "done" /\ AllTiersFailed(log[j]) /\ FallbackCopied(log[j]))
            => jobs[j].status = "completed")

\* C6 amended: as stated, except that the finished job is 'completed' unless
\* the upload that follows fails, in which case it is 'failed' with the
\* upload's error; the concatenation stage itself does not fail the job.
FallbackCompletesUnlessUploadFails ==
    /\ [][\A j \in JobIds : FallbackStep(j)]_vars
    /\ [](\A j \in JobIds :
            (pc[j] = "done" /\ AllTiersFailed(log[j]) /\ FallbackCopied(log[j]))
            => \/ jobs[j].status = "completed"
               \/ jobs[j].status = "failed" /\ jobs[j].error \in UploadMsgs)

\* C6 witness: a job whose two concat tiers failed has completed after the
\* A-only copy, and its published object is the captioned clip's content
FallbackWitness ==
    \E j \in DOMAIN jobs :
        /\ jobs[j].status = "completed"
        /\ log[j] = <<"dl_ugc", "dl_demo", "overlay", "concat", "filter", "list",
                      "ugcOnly", "upload">>
        /\ Exists(r2, Key(timestamp[j]))

\* C7 as stated: the stream-copy (list) concat is tried before the
\* filter-graph concat, and the A-only copy only after the filter-graph concat.
StreamCopyBeforeFilterGraph ==
    \A j \in JobIds : \A i \in 1..Len(log[j]) :
        /\ log[j][i] = "filter" => \E k \in 1..(i - 1) : log[j][k] = "list"
        /\ log[j][i] = "ugcOnly" => \E k \in 1..(i - 1) : log[j][k] = "filter"

\* the tier whose handler ran in this step reported an error or an output that
\* is missing or not larger than clip A
TierRejected(j) ==
    \/ signal'[j].event = "error"
    \/ signal'[j].event = "end" /\ signal'[j].size <= ugcStats[j]

\* C7 amended: the tiers are tried in the order filter-graph concat, stream-copy
\* (list) concat, A-only copy; the list concat is started only by the handler of
\* a filter-graph concat that failed or produced an invalid output, and the
\* A-only copy only by the handler of a list concat that failed or produced an
\* invalid output.
FilterGraphBeforeStreamCopy ==
    /\ [](\A j \in JobIds : \A i \in 1..Len(log[j]) :
            /\ log[j][i] = "filter" => i > 1 /\ log[j][i - 1] = "concat"
            /\ log[j][i] = "list" => i > 1 /\ log[j][i - 1] = "filter"
            /\ log[j][i] = "ugcOnly" => i > 1 /\ log[j][i - 1] = "list")
    /\ [][\A j \in JobIds :
            /\ (Len(log'[j]) > Len(log[j]) /\ log'[j][Len(log[j]) + 1] = "list")
               => pc[j] = "filter" /\ TierRejected(j)
            /\ (Len(log'[j]) > Len(log[j]) /\ log'[j][Len(log[j]) + 1] = "ugcOnly")
               => pc[j] = "list" /\ TierRejected(j)]_vars

\* C7 witness: a run has gone through all three tiers
TierOrderWitness ==
    \E j \in JobIds : \E i \in 1..Len(log[j]) : log[j][i] = "ugcOnly"

\* C8: in a step in which the concatenation stage finishes successfully (the
\* upload is started), either a concat tier's handler received 'end' and the
\* output exists with a size larger than the size of clip A read when the stage
\* started, or the final file equals the captioned clip.
AcceptedOutputValid ==
    [][\A j \in JobIds :
         (Len(log'[j]) > Len(log[j]) /\ Last(log'[j]) = "upload")
         => IF pc[j] \in {"filter", "list"} /\ log'[j] = Append(log[j], "upload")
            THEN /\ signal'[j].event = "end"
                 /\ Exists(disk', finalVideoPath(timestamp[j]))
                 /\ Size(disk'[finalVideoPath(timestamp[j])]) > ugcStats[j]
            ELSE /\ Exists(disk', finalVideoPath(timestamp[j]))
                 /\ Exists(disk', ugcWithTextPath(timestamp[j]))
                 /\ disk'[finalVideoPath(timestamp[j])]
                      = disk'[ugcWithTextPath(timestamp[j])]]_vars

\* C8 witness: one run's output was accepted from the list concat tier and
\* another run's from the A-only copy
AcceptedOutputWitness ==
    \E j \in JobIds, k \in JobIds :
        /\ log[j] = <<"dl_ugc", "dl_demo", "overlay", "concat", "filter", "list", "upload">>
        /\ AllTiersFailed(log[k]) /\ Last(log[k]) = "upload"

\* C9: a run that fails in a download, the overlay or the upload enters the
\* catch block with that stage's error and without having started a later
\* stage; from then on it starts no stage, and the only change to its record is
\* the write of status 'failed' with the caught error's message.
StageFailureFailsJob ==
    /\ [][\A j \in JobIds :
            /\ (pc[j] \in {"dl_ugc", "dl_demo"} /\ pc'[j] = "catch")
               => error'[j] = DownloadMsg /\ log'[j] = log[j]
            /\ (pc[j] = "overlay" /\ pc'[j] = "catch" /\ log'[j] = log[j])
               => error'[j] = FfmpegMsg
            /\ (pc[j] = "readFile" /\ pc'[j] = "catch")
               => error'[j] = ReadMsg /\ log'[j] = log[j]
            /\ (pc[j] = "upload" /\ pc'[j] = "catch")
               => error'[j] = UploadMsg /\ log'[j] = log[j]
            /\ pc[j] \in {"catch", "caught", "done"}
               => /\ log'[j] = log[j]
                  /\ pc'[j] \in {pc[j], "caught", "done"}
                  /\ error'[j] = error[j]
                  /\ jobs'[j] = jobs[j] \/ (pc[j] = "caught" /\ jobs'[j] = FailedJob(error[j]))]_vars
    /\ [](\A j \in DOMAIN jobs :
            (pc[j] = "done" /\ error[j] # NoError)
            => jobs[j] = [status |-> "failed", progress |-> 0, error |-> error[j]])

\* C9 witness: one job failed in the overlay without starting concatenation,
\* another failed in the upload
StageFailureWitness ==
    \E j \in DOMAIN jobs, k \in DOMAIN jobs :
        /\ jobs[j].status = "failed" /\ jobs[j].error = FfmpegMsg
        /\ Last(log[j]) = "overlay"
        /\ jobs[k].status = "failed" /\ jobs[k].error = UploadMsg

\* C10: a job record has a videoUrl field exactly when its status is
\* 'completed' and an error field exactly when its status is 'failed'.
TerminalFieldsMatchStatus ==
    \A j \in DOMAIN jobs :
        /\ "videoUrl" \in DOMAIN jobs[j] <=> jobs[j].status = "completed"
        /\ "error" \in DOMAIN jobs[j] <=> jobs[j].status = "failed"
        /\ jobs[j].status \in {"processing", "completed", "failed"}

\* C10 witness: a completed job and a job still processing are registered
TerminalFieldsWitness ==
    \E j \in DOMAIN jobs, k \in DOMAIN jobs :
        jobs[j].status = "completed" /\ jobs[k].status = "processing"

\* C11: the submission answers with the job id without waiting for media work:
\* in every state in which a job is registered, and so in every state in which
\* its first download is still pending and in every state in which that
\* download has settled, the response carrying the job id has already been sent.
ResponseBeforeMediaWork ==
    \A j \in JobIds :
        /\ j \in DOMAIN jobs => response[j] = Accepted(j)
        /\ pc[j] = "dl_ugc" => response[j] = Accepted(j)
        /\ Len(log[j]) >= 2 => response[j] = Accepted(j)

\* C11 witness: a job has been answered with its id while its first download
\* is pending and none of its clips is on disk
ResponseBeforeMediaWorkWitness ==
    \E j \in JobIds :
        /\ response[j] = Accepted(j)
        /\ pc[j] = "dl_ugc"
        /\ \A p \in TempPaths(timestamp[j]) : ~Exists(disk, p)

\* C12: a job is 'completed' only if its run's upload returned successfully (no
\* stage threw, the checkpoint after the upload was written and the bucket holds
\* the object under the run's key), and its videoUrl is the public URL of that
\* upload; once a run has started its upload, its concatenation stage was
\* started before and no concat engine invocation of the run is pending.
CompletedOnlyAfterUpload ==
    \A j \in DOMAIN jobs :
        /\ jobs[j].status = "completed"
           => /\ error[j] = NoError
              /\ Last(log[j]) = "upload"
              /\ \E i \in 1..Len(written[j]) : written[j][i] = 95
              /\ Exists(r2, Key(timestamp[j]))
              /\ jobs[j].videoUrl = PublicUrl(timestamp[j])
        /\ \A i \in 1..Len(log[j]) :
             log[j][i] = "upload"
             => /\ \E k \in 1..(i - 1) : log[j][k] = "concat"
                /\ i = Len(log[j])
                /\ pc[j] \notin {"dl_ugc", "dl_demo", "overlay", "filter", "list"}

\* C12 witness: one job has completed with its object in the bucket, and a job
\* whose upload was rejected has ended 'failed'
CompletedOnlyAfterUploadWitness ==
    \E j \in DOMAIN jobs, k \in DOMAIN jobs :
        /\ jobs[j].status = "completed" /\ Exists(r2, Key(timestamp[j]))
        /\ jobs[k].status = "failed" /\ jobs[k].error = UploadMsg

\* no other run was started at run j's clock value, so the four paths of
\* TempPaths(timestamp[j]) are written by run j only
OwnPaths(j) == \A k \in JobIds \ {j} : timestamp[k] # timestamp[j]

OnlyOwnRecordChanges ==
    [][\A j \in JobIds :
         /\ \A k \in JobIds \ {j} : pc'[j] # pc[j] => pc'[k] = pc[k]
         /\ j \in DOMAIN jobs => j \in DOMAIN jobs'
         /\ (j \in DOMAIN jobs /\ jobs'[j] # jobs[j]) => (Running(j) /\ pc'[j] # pc[j])
         /\ (j \notin DOMAIN jobs /\ j \in DOMAIN jobs')
            => (pc[j] = "idle" /\ pc'[j] = "dl_ugc")]_vars

\* C14 witness: two jobs are both processing and one has advanced past the
\* other
OnlyOwnRecordChangesWitness ==
    \E j \in DOMAIN jobs, k \in DOMAIN jobs :
        /\ jobs[j].status = "processing" /\ jobs[k].status = "processing"
        /\ jobs[j].progress = 70 /\ jobs[k].progress = 30

Pieces(s, seps) ==
    LET Starts == {i \in 1..Len(s) : s[i] \notin seps /\ (i = 1 \/ s[i - 1] \in seps)}
        End(i) == CHOOSE e \in i..Len(s) :
                      /\ \A k \in i..e : s[k] \notin seps
                      /\ e = Len(s) \/ s[e + 1] \in seps
        Nth(n) == CHOOSE i \in Starts : Cardinality({x \in Starts : x <= i}) = n
    IN [n \in 1..Cardinality(Starts) |-> SubSeq(s, Nth(n), End(Nth(n)))]

\* the words of a text: its maximal runs of characters other than blanks
Words(s) == Pieces(s, Whitespace)

\* the lines of a text handed to drawtext: its runs between line breaks
Lines(s) == Pieces(s, {"\n"})

\* greedy word wrap: a word is appended to the current line while the line
\* stays within max characters, and starts a new line otherwise
RECURSIVE Wrap(_, _, _, _)
Wrap(ws, cur, lines, max) ==
    IF ws = <<>> THEN (IF cur = <<>> THEN lines ELSE Append(lines, cur))
    ELSE IF cur = <<>> THEN Wrap(Tail(ws), Head(ws), lines, max)
    ELSE IF Len(cur) + 1 + Len(Head(ws)) <= max
         THEN Wrap(Tail(ws), cur \o <<" ">> \o Head(ws), lines, max)
         ELSE Wrap(Tail(ws), Head(ws), Append(lines, cur), max)

FirstLines(ls, n) == SubSeq(ls, 1, IF n < Len(ls) THEN n ELSE Len(ls))

\* C16 as stated: the text handed to the overlay engine is the greedy word-wrap
\* of the caption into lines of at most 25 characters, cut to the first 3 lines.
OverlayTextIsWrapped ==
    videoFilters # <<>>
    => Lines(videoFilters[1].options.text) = FirstLines(Wrap(Words(text), <<>>, <<>>, 25), 3)

\* the checkpoints in the order the claim gives them
Checkpoints == <<0, 10, 30, 50, 70, 85, 95, 100>>

IsPrefix(a, b) == Len(a) <= Len(b) /\ a = SubSeq(b, 1, Len(a))

\* C17: the progress values written to a job's record while it is 'processing'
\* are 0, 10, 30, 50, 70, 85, 95, 100 in that order, none skipped and none
\* repeated, and the record of a processing job shows the last one written; 10
\* is written at run start, 30 once clip A is downloaded, 50 once clip B is
\* downloaded, 70 once the overlay has ended, 85 once the concatenation stage
\* has finished, 95 once the upload has succeeded and 100 once the cleanup has
\* ended and the run completes.
ProgressCheckpointsInOrder ==
    \A j \in JobIds :
        /\ IsPrefix(written[j], Checkpoints)
        /\ j \in DOMAIN jobs <=> Len(written[j]) >= 2
        /\ (j \in DOMAIN jobs /\ jobs[j].status = "processing")
           => jobs[j].progress = Last(written[j])
        /\ Len(written[j]) >= 3 <=> Len(log[j]) >= 2
        /\ Len(written[j]) >= 4 <=> Len(log[j]) >= 3
        /\ Len(written[j]) >= 5 <=> Len(log[j]) >= 4
        /\ Len(written[j]) >= 6 <=> (Len(log[j]) >= 5 /\ Last(log[j]) = "upload")
        /\ Len(written[j]) >= 7
           <=> (pc[j] \in {"cleanup", "cleaned"}
                \/ (j \in DOMAIN jobs /\ jobs[j].status = "completed"))
        /\ Len(written[j]) >= 8 <=> (j \in DOMAIN jobs /\ jobs[j].status = "completed")

\* C17 witness: one job has written every checkpoint and another, still
\* processing, shows the checkpoint written after concatenation
ProgressCheckpointsWitness ==
    \E j \in JobIds, k \in DOMAIN jobs :
        /\ written[j] = Checkpoints
        /\ jobs[k].status = "processing" /\ jobs[k].progress = 85

ConcatStages == {"concat", "filter", "list", "ugcOnly", "copyA"}

\* C18: a run that is in its catch block, or has ended 'failed', with the
\* concatenation stage as the last stage it started, has attempted the copy of
\* captioned clip A to the output path as its last act and caught that copy's
\* error; while a concat engine invocation is pending nothing has been caught.
ConcatFailsOnlyByFailedCopy ==
    \A j \in JobIds :
        /\ (error[j] # NoError /\ Len(log[j]) >= 1 /\ Last(log[j]) \in ConcatStages)
           => /\ Last(log[j]) = "copyA"
              /\ error[j] = CopyMsg
        /\ error[j] = CopyMsg => (Len(log[j]) >= 1 /\ Last(log[j]) = "copyA")
        /\ pc[j] \in {"filter", "list"} => error[j] = NoError

\* C18 witness: one job has ended 'failed' after both concat tiers, the A-only
\* copy and the copy of the catch handler failed, and another job whose
\* filter-graph concat was rejected has completed
ConcatFailsOnlyByFailedCopyWitness ==
    \E j \in DOMAIN jobs, k \in DOMAIN jobs :
        /\ jobs[j].status = "failed" /\ jobs[j].error = CopyMsg
        /\ AllTiersFailed(log[j]) /\ Last(log[j]) = "copyA"
        /\ jobs[k].status = "completed"
        /\ \E i \in 1..Len(log[k]) : log[k][i] = "list"

\* C19 as stated: the step in which a failed run's cleanup takes effect removes
\* only files under that run's own four paths, and none under a path of another
\* run that is still in progress.
FailureCleanupRemovesOwnFilesOnly ==
    [][\A j \in JobIds :
         (pc[j] = "catch" /\ pc'[j] = "caught")
         => \A p \in DOMAIN disk \ DOMAIN disk' :
               /\ p \in TempPaths(timestamp[j])
               /\ \A k \in JobIds \ {j} : Running(k) => p \notin TempPaths(timestamp[k])]_vars

\* C20 as stated: two distinct completed jobs have different videoUrl values and
\* were uploaded under different storage keys.
PublishedObjectsDistinct ==
    \A j \in DOMAIN jobs, k \in DOMAIN jobs :
        (j # k /\ jobs[j].status = "completed" /\ jobs[k].status = "completed")
        => /\ jobs[j].videoUrl # jobs[k].videoUrl
           /\ Key(timestamp[j]) # Key(timestamp[k])

\* C21: the step in which a submission is rejected (a parameter is missing or a
\* clip URL is malformed) changes nothing but the id counter and the response:
\* the registry, the disk, the bucket and every run are as they were; the
\* rejected id is never registered and no run is ever started for it, it was
\* answered with status 400, and a status query for it answers 404 not-found.
RejectedSubmissionLeavesNoTrace ==
    /\ [][\A j \in JobIds :
            /\ (pc[j] = "idle" /\ pc'[j] = "rejected")
               => /\ jobs' = jobs
                  /\ disk' = disk /\ listFiles' = listFiles /\ r2' = r2
                  /\ \A k \in JobIds \ {j} : pc'[k] = pc[k]
                  /\ log' = log /\ written' = written /\ timestamp' = timestamp
            /\ pc[j] = "rejected" => pc'[j] = "rejected"]_vars
    /\ [](\A j \in JobIds :
            pc[j] = "rejected"
            => /\ j \notin DOMAIN jobs
               /\ log[j] = <<>> /\ written[j] = <<>> /\ timestamp[j] = 0
               /\ response[j].code = 400
               /\ JobStatus(j) = [code |-> 404, body |-> [error |-> "Job not found"]])

\* C21 witness: one submission was rejected for a malformed URL while the
\* other was accepted and is registered
RejectedSubmissionWitness ==
    \E j \in JobIds, k \in DOMAIN jobs :
        /\ pc[j] = "rejected"
        /\ response[j] = BadRequest("Invalid video URLs provided")
        /\ JobStatus(j).code = 404
        /\ JobStatus(k).code = 200

====
